---- MODULE Spec2Model ----
(***************************************************************************)
(* A model of app.py: the render_tabulator renderer (auto_output_ui and    *)
(* transform), the tabulator_dep asset bundle, the output_tabulator mount  *)
(* point, and the example app (app_ui, server.tabulatorTable).             *)
(*                                                                         *)
(* Three specifications share the module:                                  *)
(*   SpecTransform  transform applied to one value drawn from bounded sets *)
(*   SpecUI         UI assembly: mount points, module scopes, page build   *)
(*   Spec           the output tabulatorTable in a live session of the app *)
(***************************************************************************)
EXTENDS Integers, Sequences, FiniteSets, TLC

VARIABLES
    tvalue,     \* SpecTransform: the value handed to transform
    tpc,        \* SpecTransform: "call" before the call, "done" after it
    tresult,    \* SpecTransform: what the call returned or raised
    ns,         \* SpecUI: the current module namespace (stack of scope names)
    page,       \* SpecUI: the mount-point calls made so far, with their results
    autoUi,     \* SpecUI: result of the last render_tabulator.auto_output_ui call
    head_,      \* SpecUI: the assembled page head (emitted script/stylesheet tags)
    csv,        \* Spec: mtcars.csv on disk: missing, empty, malformed, or a table
    n,          \* Spec: input.n(), the slider value
    state,      \* Spec: Idle / Computing / Ready / Failed
    pending,    \* Spec: the host engine has signalled a change for the output
    depends,    \* Spec: the output's last evaluation read input.n()
    delivered,  \* Spec: what the client was sent for the last evaluation
    produced,   \* Spec: what the producer yielded in the last evaluation
    prev        \* Spec: the state the output was in before the current cycle

tvars == <<tvalue, tpc, tresult>>
uvars == <<ns, page, autoUi, head_>>
svars == <<csv, n, state, pending, depends, delivered, produced, prev>>
vars == <<tvalue, tpc, tresult, ns, page, autoUi, head_,
          csv, n, state, pending, depends, delivered, produced, prev>>

----------------------------------------------------------------------------
(* Bounds *)

MaxRows == 2
MaxCols == 2
MaxSrcRows == 3
MaxMounts == 3
MaxDepth == 1

----------------------------------------------------------------------------
(* Scalars and tables (pandas.DataFrame as transform reads it)             *)

\* The mantissa width of float64; an int64 beyond 2^53 need not survive a
\* conversion to float64.  Numbers are kept as an offset n from a base:
\* big = FALSE denotes n, big = TRUE denotes 2^53 + n.
SmallInt(x) == [k |-> "int", big |-> FALSE, n |-> x]
BigInt(x) == [k |-> "int", big |-> TRUE, n |-> x]
Float(x) == [k |-> "float", big |-> FALSE, n |-> x]
Bool(b) == [k |-> "bool", b |-> b]
Str(s) == [k |-> "str", s |-> s]

Dtypes == {"int64", "float64", "bool", "object"}

\* The values a column of each dtype holds in the checked inputs.
Domain(d) ==
    CASE d = "int64" -> {SmallInt(1), BigInt(1)}
      [] d = "float64" -> {Float(2)}
      [] d = "bool" -> {Bool(TRUE)}
      [] OTHER -> {Str("x")}

Labels == {"a", "b"}

Column(R) ==
    UNION {{[name |-> l, dtype |-> d, vals |-> vs] :
                l \in Labels, vs \in [1..R -> Domain(d)]} : d \in Dtypes}

DataFrame(R, cs) == [kind |-> "DataFrame", nrows |-> R, cols |-> cs]

\* Values that are not a pandas.DataFrame: a plain mapping, a number.
NonTables == {[kind |-> "dict"], [kind |-> "int"]}

----------------------------------------------------------------------------
(* numpy / pandas conversions used by transform                            *)

\* int64 -> float64, round to nearest, ties to even.  Below 2^53 the
\* conversion is exact; in [2^53, 2^54) floats are 2 apart.
RoundEven(x) ==
    IF x % 2 = 0 THEN x
    ELSE IF ((x - 1) \div 2) % 2 = 0 THEN x - 1 ELSE x + 1

astype_float64(v) ==
    IF v.k = "int"
    THEN [k |-> "float", big |-> v.big, n |-> IF v.big THEN RoundEven(v.n) ELSE v.n]
    ELSE v

\* The dtype of the 2-D array DataFrame.values builds: the columns' common
\* dtype (int64 with float64 is float64; any other mix is object); float64
\* for a frame with no columns.
interleaved_dtype(df) ==
    LET ds == {df.cols[i].dtype : i \in 1..Len(df.cols)}
    IN  IF ds = {} THEN "float64"
        ELSE IF Cardinality(ds) = 1 THEN CHOOSE d \in ds : TRUE
        ELSE IF ds = {"int64", "float64"} THEN "float64"
        ELSE "object"

\* An n-dimensional array: its dtype, its shape, and its items in row-major
\* (C) order.
ndarray(t, shape, items) == [dtype |-> t, shape |-> shape, items |-> items]

\* The cell of row j, column i, as DataFrame.values stores it under dtype t.
cell(df, t, j, i) ==
    IF t = "float64" THEN astype_float64(df.cols[i].vals[j])
    ELSE df.cols[i].vals[j]

\* value.values.T: the same cells with the axes swapped, one row per column.
values_transposed(df) ==
    LET t == interleaved_dtype(df)
        C == Len(df.cols)
        R == df.nrows
    IN  ndarray(t, <<C, R>>,
                [x \in 1..(R * C) |->
                    cell(df, t, ((x - 1) % R) + 1, ((x - 1) \div R) + 1)])

\* DataFrame.values: the (nrows x ncols) array, every cell cast to the
\* interleaved dtype.
values(df) ==
    LET t == interleaved_dtype(df)
        C == Len(df.cols)
        R == df.nrows
    IN  ndarray(t, <<R, C>>,
                [x \in 1..(R * C) |->
                    cell(df, t, ((x - 1) \div C) + 1, ((x - 1) % C) + 1)])

\* DataFrame.columns: the Index of column labels.
columns(df) ==
    ndarray("object", <<Len(df.cols)>>, [i \in 1..Len(df.cols) |-> df.cols[i].name])

\* value.values.dtype in place of value.dtypes: the one dtype of the
\* interleaved array.
dtype_of_values(df) ==
    ndarray("object", <<1>>, <<[numpy_dtype |-> interleaved_dtype(df)]>>)

\* DataFrame.dtypes: a Series holding each column's dtype object.
dtypes(df) ==
    ndarray("object", <<Len(df.cols)>>,
            [i \in 1..Len(df.cols) |-> [numpy_dtype |-> df.cols[i].dtype]])

\* Series.astype(str): every item replaced by its str(); str() of a dtype
\* object is its name.
astype_str(a) ==
    ndarray("object", a.shape, [x \in 1..Len(a.items) |-> a.items[x].numpy_dtype])

\* ndarray.tolist / Index.tolist / Series.tolist: nested lists, one level per
\* axis.  A (R, 0) array gives R empty lists, a (0, C) array the empty list.
tolist(a) ==
    IF Len(a.shape) = 1 THEN [i \in 1..a.shape[1] |-> a.items[i]]
    ELSE [j \in 1..a.shape[1] |->
            [i \in 1..a.shape[2] |-> a.items[(j - 1) * a.shape[2] + i]]]

----------------------------------------------------------------------------
(* render_tabulator.transform                                              *)

Raise(e) == [ok |-> FALSE, error |-> e]
Return(v) == [ok |-> TRUE, value |-> v]

isinstance_DataFrame(value) == value.kind = "DataFrame"

\* transform with a best-effort coercion in place of the isinstance check: a
\* value that is no DataFrame is rendered as the empty table.
transform_coercing(value) ==
    IF ~isinstance_DataFrame(value)
    THEN Return([data |-> <<>>, columns |-> <<>>, type_hints |-> <<>>])
    ELSE Return([data |-> tolist(values(value)),
                 columns |-> tolist(columns(value)),
                 type_hints |-> tolist(astype_str(dtypes(value)))])

\* transform with the isinstance test the wrong way round.
transform_inverted_check(value) ==
    IF isinstance_DataFrame(value)
    THEN Raise("TypeError")
    ELSE Return([data |-> <<>>, columns |-> <<>>, type_hints |-> <<>>])

transform(value) ==
    IF ~isinstance_DataFrame(value)
    THEN Raise("TypeError")
    ELSE Return([data |-> tolist(values(value)),
                 columns |-> tolist(columns(value)),
                 type_hints |-> tolist(astype_str(dtypes(value)))])

----------------------------------------------------------------------------
(* SpecTransform: transform called once on a value drawn from the inputs   *)

NoResult == [ok |-> FALSE, error |-> "not called"]

UiIdle == /\ ns = <<>>
          /\ page = <<>>
          /\ autoUi = [name |-> "", result |-> NoResult]
          /\ head_ = [built |-> FALSE, tags |-> <<>>]

SessionIdle == /\ csv = [kind |-> "missing", nrows |-> 0]
               /\ n = 10
               /\ state = "Idle"
               /\ pending = FALSE
               /\ depends = FALSE
               /\ delivered = [kind |-> "nothing"]
               /\ produced = NoResult
               /\ prev = "Idle"

InitTransform ==
    /\ \/ \E R \in 0..MaxRows, C \in 0..MaxCols :
             \E cs \in [1..C -> Column(R)] : tvalue = DataFrame(R, cs)
       \/ tvalue \in NonTables
    /\ tpc = "call"
    /\ tresult = NoResult
    /\ UiIdle
    /\ SessionIdle

CallTransform ==
    /\ tpc = "call"
    /\ tresult' = transform(tvalue)
    /\ tpc' = "done"
    /\ UNCHANGED <<tvalue, uvars, svars>>

NextTransform == CallTransform

SpecTransform == InitTransform /\ [][NextTransform]_vars

\* C1: for a table of R rows and C columns (zero rows and zero columns
\* included) transform returns, without raising, a payload with C columns,
\* C type hints, R data rows, and every data row C cells long.
C1_Shape ==
    (tpc = "done" /\ isinstance_DataFrame(tvalue)) =>
        /\ tresult.ok
        /\ Len(tresult.value.columns) = Len(tvalue.cols)
        /\ Len(tresult.value.type_hints) = Len(tvalue.cols)
        /\ Len(tresult.value.data) = tvalue.nrows
        /\ \A j \in 1..Len(tresult.value.data) :
                Len(tresult.value.data[j]) = Len(tvalue.cols)

\* transform has returned for a table with rows and no columns.
C1_Witness ==
    /\ tpc = "done"
    /\ isinstance_DataFrame(tvalue)
    /\ tvalue.nrows = MaxRows
    /\ Len(tvalue.cols) = 0
    /\ tresult.ok
    /\ Len(tresult.value.data) = MaxRows

\* C2: for a value that is not a table, transform raises TypeError and
\* returns nothing: the result carries no payload.
C2_TypeMismatch ==
    (tpc = "done" /\ ~isinstance_DataFrame(tvalue)) =>
        /\ ~tresult.ok
        /\ tresult.error = "TypeError"
        /\ DOMAIN tresult = {"ok", "error"}

\* transform has been called on a plain mapping and has raised.
C2_Witness ==
    /\ tpc = "done"
    /\ tvalue = [kind |-> "dict"]
    /\ tresult = Raise("TypeError")

\* Two scalars denote the same value (1 and 1.0 do; 2^53+1 and 2^53 do not).
SameValue(a, b) ==
    IF a.k \in {"int", "float"} /\ b.k \in {"int", "float"}
    THEN a.big = b.big /\ a.n = b.n
    ELSE a = b

\* C3: the payload keeps the table's order: columns[i] is the label of column
\* i, type_hints[i] its dtype, data[j] the table's row j, and data[j][i] the
\* value column i holds in row j.
C3_OrderPreserved ==
    (tpc = "done" /\ isinstance_DataFrame(tvalue) /\ tresult.ok) =>
        /\ \A i \in 1..Len(tvalue.cols) :
              /\ tresult.value.columns[i] = tvalue.cols[i].name
              /\ tresult.value.type_hints[i] = tvalue.cols[i].dtype
        /\ \A j \in 1..tvalue.nrows : \A i \in 1..Len(tvalue.cols) :
              SameValue(tresult.value.data[j][i], tvalue.cols[i].vals[j])

----------------------------------------------------------------------------
(* tabulator_dep, output_tabulator, render_tabulator.auto_output_ui        *)

tabulator_dep ==
    [name |-> "tabulator",
     version |-> "5.5.2",
     source |-> [subdir |-> "tabulator"],
     script |-> [src |-> "tableComponent.js", type |-> "module"],
     stylesheet |-> [href |-> "tabulator.min.css"],
     all_files |-> TRUE]

\* The module scopes a UI call can be nested in, and the namespace separator.
ModuleNames == {"mod"}

RECURSIVE ns_prefix(_)
ns_prefix(scope) ==
    IF scope = <<>> THEN ""
    ELSE ns_prefix(SubSeq(scope, 1, Len(scope) - 1)) \o scope[Len(scope)] \o "-"

\* shiny.module.resolve_id: the id qualified by the current module namespace;
\* unchanged at top scope.
resolve_id(id) == ns_prefix(ns) \o id

\* output_tabulator with a bundle built per call and named after the id.
output_tabulator_own_dep(id, height) ==
    [tag |-> "div",
     children |-> <<[tabulator_dep EXCEPT !.name = "tabulator-" \o id]>>,
     attrs |-> [id |-> resolve_id(id),
                class |-> "shiny-tabulator-output",
                style |-> "height: " \o height]]

\* output_tabulator passing the id through unresolved.
output_tabulator_raw_id(id, height) ==
    [tag |-> "div",
     children |-> <<tabulator_dep>>,
     attrs |-> [id |-> id,
                class |-> "shiny-tabulator-output",
                style |-> "height: " \o height]]

output_tabulator(id, height) ==
    [tag |-> "div",
     children |-> <<tabulator_dep>>,
     attrs |-> [id |-> resolve_id(id),
                class |-> "shiny-tabulator-output",
                style |-> "height: " \o height]]

\* The default of output_tabulator's height parameter.
DefaultHeight == "200px"

\* A call site: height is either given or left out.
Omitted == "<omitted>"
call_output_tabulator(id, height) ==
    output_tabulator(id, IF height = Omitted THEN DefaultHeight ELSE height)

\* The names the module object bound to `ui` (shiny.ui) has as attributes;
\* output_tabulator is a global of app.py, not an attribute of shiny.ui.
shiny_ui == {"div", "page_fluid", "input_slider", "output_plot", "output_table",
             "output_text", "output_text_verbatim", "output_ui", "output_image",
             "output_data_frame"}

\* render_tabulator.auto_output_ui: looks output_tabulator up on `ui`.
auto_output_ui(output_name) ==
    IF "output_tabulator" \in shiny_ui
    THEN Return(output_tabulator(output_name, DefaultHeight))
    ELSE Raise("AttributeError")

----------------------------------------------------------------------------
(* Page assembly (the host's dependency resolution)                        *)

RECURSIVE collect_deps(_)
collect_deps(elems) ==
    IF elems = <<>> THEN <<>>
    ELSE elems[1].children \o collect_deps(Tail(elems))

identity(dep) == <<dep.name, dep.version>>

\* Keep the first occurrence of every bundle identity.
RECURSIVE dedup(_, _)
dedup(deps, seen) ==
    IF deps = <<>> THEN <<>>
    ELSE IF identity(deps[1]) \in seen THEN dedup(Tail(deps), seen)
    ELSE <<deps[1]>> \o dedup(Tail(deps), seen \cup {identity(deps[1])})

RECURSIVE emit_tags(_)
emit_tags(deps) ==
    IF deps = <<>> THEN <<>>
    ELSE <<[kind |-> "link", bundle |-> identity(deps[1]),
            file |-> deps[1].stylesheet.href],
           [kind |-> "script", bundle |-> identity(deps[1]),
            file |-> deps[1].script.src]>> \o emit_tags(Tail(deps))

assemble(elems) == emit_tags(dedup(collect_deps(elems), {}))

----------------------------------------------------------------------------
(* SpecUI: UI assembly                                                     *)

SlotIds == {"tabulatorTable", "t2"}
Heights == {Omitted, "400px"}

TransformIdle == /\ tvalue = [kind |-> "int"]
                 /\ tpc = "call"
                 /\ tresult = NoResult

InitUI == UiIdle /\ TransformIdle /\ SessionIdle

\* Entering a reusable UI module pushes its name on the namespace.
EnterModule(m) ==
    /\ ~head_.built
    /\ Len(ns) < MaxDepth
    /\ ns' = Append(ns, m)
    /\ UNCHANGED <<page, autoUi, head_, tvars, svars>>

ExitModule ==
    /\ ~head_.built
    /\ ns # <<>>
    /\ ns' = SubSeq(ns, 1, Len(ns) - 1)
    /\ UNCHANGED <<page, autoUi, head_, tvars, svars>>

\* A call output_tabulator(id) or output_tabulator(id, height) in the UI.
MountPoint(id, height) ==
    /\ ~head_.built
    /\ Len(page) < MaxMounts
    /\ page' = Append(page, [id |-> id, height |-> height, scope |-> ns,
                             elem |-> call_output_tabulator(id, height)])
    /\ UNCHANGED <<ns, autoUi, head_, tvars, svars>>

\* Express mode asks the renderer bound to output_name for its UI.
AutoOutputUi(output_name) ==
    /\ ~head_.built
    /\ autoUi' = [name |-> output_name, result |-> auto_output_ui(output_name)]
    /\ UNCHANGED <<ns, page, head_, tvars, svars>>

\* The page is built from the mount points placed so far.
AssemblePage ==
    /\ ~head_.built
    /\ ns = <<>>
    /\ head_' = [built |-> TRUE,
                 tags |-> assemble([i \in 1..Len(page) |-> page[i].elem])]
    /\ UNCHANGED <<ns, page, autoUi, tvars, svars>>

NextUI ==
    \/ \E m \in ModuleNames : EnterModule(m)
    \/ ExitModule
    \/ \E id \in SlotIds, h \in Heights : MountPoint(id, h)
    \/ \E name \in SlotIds : AutoOutputUi(name)
    \/ AssemblePage

SpecUI == InitUI /\ [][NextUI]_vars

\* C4: auto_output_ui returns the element output_tabulator returns for the
\* renderer's output name and the default height.
C4_AutoUiIsMountPoint ==
    autoUi.name # "" =>
        autoUi.result = Return(output_tabulator(autoUi.name, DefaultHeight))

\* The scope-qualified id, written out: scope names joined by "-", then the id.
ExpectedId(scope, id) ==
    IF scope = <<>> THEN id
    ELSE IF Len(scope) = 1 THEN scope[1] \o "-" \o id
    ELSE IF Len(scope) = 2 THEN scope[1] \o "-" \o scope[2] \o "-" \o id
    ELSE scope[1] \o "-" \o scope[2] \o "-" \o scope[3] \o "-" \o id

\* C8: every element output_tabulator(id, height) returns is one div that
\* carries the asset bundle, has the scope-resolved id, the class
\* "shiny-tabulator-output" and "height: <height>" as inline style, "200px"
\* when the height is left out.
C8_Markup ==
    \A i \in 1..Len(page) :
        LET c == page[i] IN
        /\ c.elem.tag = "div"
        /\ c.elem.children = <<tabulator_dep>>
        /\ c.elem.attrs.id = ExpectedId(c.scope, c.id)
        /\ c.elem.attrs.class = "shiny-tabulator-output"
        /\ c.elem.attrs.style =
             (IF c.height = Omitted THEN "height: 200px" ELSE "height: " \o c.height)

\* A mount point placed inside a module with its height left out.
C8_Witness ==
    \E i \in 1..Len(page) :
        /\ page[i].scope # <<>>
        /\ page[i].height = Omitted
        /\ page[i].elem.attrs.id = "mod-tabulatorTable"
        /\ page[i].elem.attrs.style = "height: 200px"

Count(tags, kind, file) ==
    Cardinality({i \in 1..Len(tags) : tags[i].kind = kind /\ tags[i].file = file})

\* C9: a page assembled from two or more mount points includes the tabulator
\* 5.5.2 script once and its stylesheet once.
C9_BundleOnce ==
    (head_.built /\ Len(page) >= 2) =>
        /\ Count(head_.tags, "script", "tableComponent.js") = 1
        /\ Count(head_.tags, "link", "tabulator.min.css") = 1
        /\ \A i \in 1..Len(head_.tags) :
              head_.tags[i].bundle = <<"tabulator", "5.5.2">>

\* A page assembled from mount points for two different slots.
C9_Witness ==
    /\ head_.built
    /\ Len(page) >= 2
    /\ page[1].id # page[2].id
    /\ Len(head_.tags) = 2

----------------------------------------------------------------------------
(* The example app: app_ui and server.tabulatorTable                       *)

SliderMin == 1
SliderMax == 20
SliderValue == 10

app_ui ==
    [tag |-> "page_fluid",
     children |-> <<[tag |-> "input_slider", id |-> "n", min |-> SliderMin,
                     max |-> SliderMax, value |-> SliderValue],
                    call_output_tabulator("tabulatorTable", Omitted)>>]

\* The table pd.read_csv infers from a file with the header mpg,cyl and N
\* data rows: row j holds 20 + j and j, parsed as float64 and int64.  With no
\* data row there is nothing to infer a number type from and both columns
\* are object.
SourceTable(N) ==
    IF N = 0
    THEN DataFrame(0, <<[name |-> "mpg", dtype |-> "object", vals |-> <<>>],
                        [name |-> "cyl", dtype |-> "object", vals |-> <<>>]>>)
    ELSE DataFrame(N, <<[name |-> "mpg", dtype |-> "float64",
                         vals |-> [j \in 1..N |-> Float(20 + j)]],
                        [name |-> "cyl", dtype |-> "int64",
                         vals |-> [j \in 1..N |-> SmallInt(j)]]>>)

\* pd.read_csv on the file next to app.py: the table, or the error raised
\* for a file that is missing, empty (no header line) or malformed.
read_csv(file) ==
    CASE file.kind = "table" -> Return(SourceTable(file.nrows))
      [] file.kind = "empty" -> Raise("EmptyDataError")
      [] file.kind = "malformed" -> Raise("ParserError")
      [] OTHER -> Raise("FileNotFoundError")

\* DataFrame.head(k) is df.iloc[:k]: the first k rows, or all but the last
\* -k rows when k is negative.
slice_stop(len, k) ==
    IF k >= 0 THEN (IF k < len THEN k ELSE len)
    ELSE (IF len + k > 0 THEN len + k ELSE 0)

head(df, k) ==
    LET m == slice_stop(df.nrows, k)
    IN  DataFrame(m, [i \in 1..Len(df.cols) |->
                        [df.cols[i] EXCEPT !.vals = SubSeq(df.cols[i].vals, 1, m)]])

\* tabulatorTable showing the slider's initial value instead of input.n().
tabulatorTable_initial_n ==
    LET r == read_csv(csv)
    IN  IF r.ok THEN Return(head(r.value, SliderValue)) ELSE r

\* server.tabulatorTable
tabulatorTable ==
    LET r == read_csv(csv)
    IN  IF r.ok THEN Return(head(r.value, n)) ELSE r

\* Whether a run of tabulatorTable reads input.n(): the argument of head is
\* evaluated after read_csv has returned, so not when read_csv raises.
tabulatorTable_reads_n == read_csv(csv).ok

\* The name the renderer is bound under: the decorated function's name.
output_name == "tabulatorTable"

----------------------------------------------------------------------------
(* Spec: one bound output in a live session                                *)

States == {"Idle", "Computing", "Ready", "Failed"}

CsvFiles ==
    {[kind |-> k, nrows |-> 0] : k \in {"missing", "empty", "malformed"}} \cup
    {[kind |-> "table", nrows |-> N] : N \in 0..MaxSrcRows}

Init ==
    /\ csv \in CsvFiles
    /\ n = SliderValue
    /\ state = "Idle"
    /\ pending = TRUE
    /\ depends = FALSE
    /\ delivered = [kind |-> "nothing"]
    /\ produced = NoResult
    /\ prev = "Idle"
    /\ UiIdle
    /\ TransformIdle

\* The user moves the slider; the host marks the output for re-evaluation
\* when its last evaluation read input.n().
SetSlider(v) ==
    /\ state # "Computing"
    /\ v # n
    /\ n' = v
    /\ pending' = (pending \/ depends)
    /\ UNCHANGED <<csv, state, depends, delivered, produced, prev, tvars, uvars>>

\* The file on disk is replaced or removed; nothing watches it.
CsvChange(file) ==
    /\ file # csv
    /\ csv' = file
    /\ UNCHANGED <<n, state, pending, depends, delivered, produced, prev, tvars, uvars>>

\* The host starts an evaluation cycle for the invalidated output.
Begin ==
    /\ pending
    /\ state \in {"Idle", "Ready", "Failed"}
    /\ state' = "Computing"
    /\ pending' = FALSE
    /\ prev' = state
    /\ UNCHANGED <<csv, n, depends, delivered, produced, tvars, uvars>>

\* The cycle runs: the producer is called, its value goes through transform,
\* and the payload or the error is sent to the client.
Evaluate ==
    /\ state = "Computing"
    /\ LET v == tabulatorTable
           t == IF v.ok THEN transform(v.value) ELSE v
       IN  /\ produced' = v
           /\ depends' = tabulatorTable_reads_n
           /\ state' = IF t.ok THEN "Ready" ELSE "Failed"
           /\ delivered' = IF t.ok THEN [kind |-> "values", payload |-> t.value]
                           ELSE [kind |-> "errors", error |-> t.error]
    /\ UNCHANGED <<csv, n, pending, prev, tvars, uvars>>

Next ==
    \/ \E v \in SliderMin..SliderMax : SetSlider(v)
    \/ \E file \in CsvFiles : CsvChange(file)
    \/ Begin
    \/ Evaluate

Spec == Init /\ [][Next]_vars

Min(a, b) == IF a < b THEN a ELSE b

\* The step that ends an evaluation cycle.
CycleEnds == state = "Computing" /\ state' # "Computing"

\* C6: what the client holds is nothing yet, a payload with exactly data,
\* columns and type_hints (columns and type_hints equally long) and no
\* error, or an error and no payload; a Failed output shows the error, never
\* a payload.
C6_PayloadOrError ==
    /\ delivered.kind \in {"nothing", "values", "errors"}
    /\ delivered.kind = "nothing" => state \in {"Idle", "Computing"}
    /\ delivered.kind = "values" =>
          /\ DOMAIN delivered = {"kind", "payload"}
          /\ DOMAIN delivered.payload = {"data", "columns", "type_hints"}
          /\ Len(delivered.payload.columns) = Len(delivered.payload.type_hints)
    /\ delivered.kind = "errors" => DOMAIN delivered = {"kind", "error"}
    /\ state = "Failed" => delivered.kind = "errors"
    /\ state = "Ready" => delivered.kind = "values"

\* A cycle has failed after one that had delivered a payload.
C6_Witness ==
    /\ state = "Failed"
    /\ prev = "Ready"
    /\ delivered = [kind |-> "errors", error |-> "FileNotFoundError"]

\* C7: the state is one of the four, and it changes only from Idle, Ready or
\* Failed to Computing on the host's change signal, from Computing to Ready
\* when the producer returned a table, and from Computing to Failed when the
\* producer raised or returned something that is no table.
C7_Transitions ==
    /\ state \in States
    /\ [][/\ state' \in States
          /\ state' # state =>
               \/ /\ state \in {"Idle", "Ready", "Failed"}
                  /\ state' = "Computing"
                  /\ pending
               \/ /\ state = "Computing"
                  /\ state' = "Ready"
                  /\ produced'.ok
                  /\ isinstance_DataFrame(produced'.value)
               \/ /\ state = "Computing"
                  /\ state' = "Failed"
                  /\ (~produced'.ok \/ ~isinstance_DataFrame(produced'.value))]_vars

\* A slider move has put a Ready output back into Computing, and that cycle
\* has ended Ready again with the new number of rows.
C7_Witness ==
    /\ state = "Ready"
    /\ prev = "Ready"
    /\ ~pending
    /\ n = 1
    /\ produced.ok
    /\ Len(delivered.payload.data) = 1

\* C10: every evaluation of tabulatorTable with the file present yields the
\* first min(n, N) rows of the source table, in order, with all its columns,
\* n being a slider value of 1..20; the payload has at most n rows; and the
\* mount point in app_ui has the producer's name as id.
C10_HeadOfSource ==
    [][(CycleEnds /\ csv.kind = "table") =>
        LET src == SourceTable(csv.nrows)
            m == Min(n, csv.nrows)
        IN  /\ n \in SliderMin..SliderMax
            /\ produced'.ok
            /\ isinstance_DataFrame(produced'.value)
            /\ produced'.value.nrows = m
            /\ Len(produced'.value.cols) = Len(src.cols)
            /\ \A i \in 1..Len(src.cols) :
                  /\ produced'.value.cols[i].name = src.cols[i].name
                  /\ produced'.value.cols[i].dtype = src.cols[i].dtype
                  /\ produced'.value.cols[i].vals = [j \in 1..m |-> src.cols[i].vals[j]]
            /\ delivered'.kind = "values"
            /\ Len(delivered'.payload.data) <= n
            /\ app_ui.children[2].attrs.id = output_name]_vars

\* The slider is below the number of rows on disk and the output shows that
\* many rows.
C10_Witness ==
    /\ state = "Ready"
    /\ n = 2
    /\ produced.ok
    /\ produced.value.nrows = 2
    /\ csv = [kind |-> "table", nrows |-> 3]
    /\ Len(delivered.payload.data) = 2

====
